---- MODULE Spec2Model ----
(***************************************************************************)
(* Model of crates/biome_cli/src/execute/mod.rs: the Execution value, its  *)
(* constructors and queries, and the dispatcher execute_mode.              *)
(*                                                                         *)
(* The collaborators execute_mode calls (std_in::run, migrate::run,        *)
(* traverse, report) live in other modules.  Each call is recorded in      *)
(* `trace` with the arguments execute_mode hands over, and each return is  *)
(* a nondeterministic input (Ok or one of the Errors).                     *)
(***************************************************************************)
EXTENDS Naturals, Sequences, FiniteSets

VARIABLES
    pc,             \* position of the caller / of execute_mode
    mode,           \* the Execution (None before a constructor ran)
    ctor,           \* which constructor built `mode` ("none" before)
    github_actions, \* what std::env::var("GITHUB_ACTIONS") returned to new_ci
    cli_options,    \* the &CliOptions argument of execute_mode
    paths,          \* the Vec<OsString> argument of execute_mode
    session,        \* who holds the CliSession
    trace,          \* calls made to, and returns received from, collaborators
    result,         \* the Result execute_mode returned (None while running)
    observed        \* the last query a holder of &Execution evaluated

vars == <<pc, mode, ctor, github_actions, cli_options, paths, session, trace,
          result, observed>>

(***************************************************************************)
(* Bounds of the model.                                                    *)
(***************************************************************************)
MaxPaths == 2

PathNames == {"src/", "a.js"}
StdinPaths == {"a.js", "b.ts"}
StdinContents == {"let x=1", ""}
ConfigPaths == {"biome.json", "."}
PatternIds == {"pattern0"}
CliCaps == {0, 20, 50}
EnvValues == {"true", "TRUE", "1"}
Errors == {"E1", "E2"}
Summaries == {"summary0", "summary1"}
DiagnosticsCollections == {"diags0", "diags1"}

(***************************************************************************)
(* Option and Result.                                                      *)
(***************************************************************************)
None == [tag |-> "None"]
Some(v) == [tag |-> "Some", value |-> v]
is_some(o) == o.tag = "Some"
Option(S) == {None} \cup {Some(v) : v \in S}

Ok(v) == [tag |-> "Ok", value |-> v]
Err(e) == [tag |-> "Err", error |-> e]
Unit == <<>>
UnitResults == {Ok(Unit)} \cup {Err(e) : e \in Errors}

(***************************************************************************)
(* The data model.                                                         *)
(***************************************************************************)
FixFileModes == {"SafeFixes", "SafeAndUnsafeFixes"}
ExecutionEnvironments == {"GitHub"}
MigrateSubCommands == {"Prettier"}
ReportModes == {"Terminal", "Json"}
ReportMode_default == "Terminal"

Stdin(path, content) == <<path, content>>
\* Mutant: reads the wrong tuple field.
as_path_reads_content(stdin) == stdin[2]
as_path(stdin) == stdin[1]
as_content(stdin) == stdin[2]
Stdins == {Stdin(p, c) : p \in StdinPaths, c \in StdinContents}

Check(fix_file_mode, stdin) ==
    [kind |-> "Check", fix_file_mode |-> fix_file_mode, stdin |-> stdin]
Lint(fix_file_mode, stdin) ==
    [kind |-> "Lint", fix_file_mode |-> fix_file_mode, stdin |-> stdin]
CI(environment) ==
    [kind |-> "CI", environment |-> environment]
Format(ignore_errors, write, stdin) ==
    [kind |-> "Format", ignore_errors |-> ignore_errors, write |-> write,
     stdin |-> stdin]
Migrate(write, configuration_file_path, configuration_directory_path, sub_command) ==
    [kind |-> "Migrate", write |-> write,
     configuration_file_path |-> configuration_file_path,
     configuration_directory_path |-> configuration_directory_path,
     sub_command |-> sub_command]
Search(pattern, stdin) ==
    [kind |-> "Search", pattern |-> pattern, stdin |-> stdin]

TraversalModes ==
    {Check(f, s) : f \in Option(FixFileModes), s \in Option(Stdins)}
    \cup {Lint(f, s) : f \in Option(FixFileModes), s \in Option(Stdins)}
    \cup {CI(e) : e \in Option(ExecutionEnvironments)}
    \cup {Format(i, w, s) : i \in BOOLEAN, w \in BOOLEAN, s \in Option(Stdins)}
    \cup {Migrate(w, f, d, c) : w \in BOOLEAN, f \in ConfigPaths, d \in ConfigPaths,
                                c \in Option(MigrateSubCommands)}
    \cup {Search(p, s) : p \in PatternIds, s \in Option(Stdins)}

Execution(report_mode, traversal_mode, max_diagnostics) ==
    [report_mode |-> report_mode, traversal_mode |-> traversal_mode,
     max_diagnostics |-> max_diagnostics]

(***************************************************************************)
(* Constructors.                                                           *)
(***************************************************************************)
Execution_new_format ==
    Execution(ReportMode_default, Format(FALSE, FALSE, None), 0)

Execution_new(traversal_mode) ==
    Execution(ReportMode_default, traversal_mode, 20)

\* std::env::var returns Ok(value), Err(NotPresent) or Err(NotUnicode).
EnvVarResults ==
    {Ok(v) : v \in EnvValues} \cup {Err("NotPresent"), Err("NotUnicode")}

\* Result::ok
ok(r) == IF r.tag = "Ok" THEN Some(r.value) ELSE None

\* Mutant: any readable value of the variable counts as GitHub.
is_github_when_set(env_var) == is_some(ok(env_var))

\* Option::map_or(false, |value| value == "true")
is_github(env_var) ==
    LET o == ok(env_var) IN
    IF is_some(o) THEN o.value = "true" ELSE FALSE

Execution_new_ci(env_var) ==
    Execution(ReportMode_default,
              CI(IF is_github(env_var) THEN Some("GitHub") ELSE None),
              20)

Execution_with_report(traversal_mode, report_mode) ==
    Execution(report_mode, traversal_mode, 20)

(***************************************************************************)
(* FeaturesBuilder (biome_service): each with_* pushes one FeatureName,    *)
(* build returns the collected Vec.                                        *)
(***************************************************************************)
FeaturesBuilder_new == <<>>
with_formatter(b) == Append(b, "Format")
with_linter(b) == Append(b, "Lint")
with_organize_imports(b) == Append(b, "OrganizeImports")
with_search(b) == Append(b, "Search")
build(b) == b

(***************************************************************************)
(* Queries on an Execution.                                                *)
(***************************************************************************)
\* Mutant: Format also enables the linter.
to_features_format_lints(self) ==
    LET k == self.traversal_mode.kind IN
    CASE k = "Format" -> build(with_linter(with_formatter(FeaturesBuilder_new)))
      [] k = "Lint" -> build(with_linter(FeaturesBuilder_new))
      [] k \in {"Check", "CI"} ->
            build(with_linter(with_formatter(with_organize_imports(FeaturesBuilder_new))))
      [] k = "Migrate" -> <<>>
      [] k = "Search" -> build(with_search(FeaturesBuilder_new))

to_features(self) ==
    LET k == self.traversal_mode.kind IN
    CASE k = "Format" -> build(with_formatter(FeaturesBuilder_new))
      [] k = "Lint" -> build(with_linter(FeaturesBuilder_new))
      [] k \in {"Check", "CI"} ->
            build(with_linter(with_formatter(with_organize_imports(FeaturesBuilder_new))))
      [] k = "Migrate" -> <<>>
      [] k = "Search" -> build(with_search(FeaturesBuilder_new))

get_max_diagnostics(self) == self.max_diagnostics

is_ci(self) == self.traversal_mode.kind = "CI"

is_ci_github(self) ==
    IF self.traversal_mode.kind = "CI"
    THEN self.traversal_mode.environment = Some("GitHub")
    ELSE FALSE

is_check_apply(self) ==
    /\ self.traversal_mode.kind = "Check"
    /\ self.traversal_mode.fix_file_mode = Some("SafeFixes")

is_check_apply_unsafe(self) ==
    /\ self.traversal_mode.kind = "Check"
    /\ self.traversal_mode.fix_file_mode = Some("SafeAndUnsafeFixes")

\* Mutant: Migrate is grouped with the read-only modes.
requires_write_access_migrate_read_only(self) ==
    LET m == self.traversal_mode IN
    CASE m.kind \in {"Check", "Lint"} -> is_some(m.fix_file_mode)
      [] m.kind \in {"CI", "Search", "Migrate"} -> FALSE
      [] m.kind = "Format" -> m.write

requires_write_access(self) ==
    LET m == self.traversal_mode IN
    CASE m.kind \in {"Check", "Lint"} -> is_some(m.fix_file_mode)
      [] m.kind \in {"CI", "Search"} -> FALSE
      [] m.kind \in {"Format", "Migrate"} -> m.write

\* Mutant: Search is grouped with the modes that have no Stdin.
as_stdin_file_without_search(self) ==
    LET m == self.traversal_mode IN
    CASE m.kind \in {"Format", "Lint", "Check"} -> m.stdin
      [] m.kind \in {"CI", "Migrate", "Search"} -> None

as_stdin_file(self) ==
    LET m == self.traversal_mode IN
    CASE m.kind \in {"Format", "Lint", "Check", "Search"} -> m.stdin
      [] m.kind \in {"CI", "Migrate"} -> None

(***************************************************************************)
(* Arguments of execute_mode and values handed to the collaborators.       *)
(***************************************************************************)
CliOptionsSet == [max_diagnostics : CliCaps, verbose : BOOLEAN]

RECURSIVE SeqsUpTo(_, _)
SeqsUpTo(S, n) ==
    IF n = 0 THEN {<<>>}
    ELSE LET shorter == SeqsUpTo(S, n - 1) IN
         shorter \cup {Append(q, x) : q \in {r \in shorter : Len(r) = n - 1}, x \in S}

PathLists == SeqsUpTo(PathNames, MaxPaths)

\* BiomePath::new(path) (biome_fs): the BiomePath wrapping `path`.
BiomePath_new(path) == [path |-> path]

MigratePayload(s, write, file_path, directory_path, verbose, sub_command) ==
    [session |-> s, write |-> write,
     configuration_file_path |-> file_path,
     configuration_directory_path |-> directory_path,
     verbose |-> verbose, sub_command |-> sub_command]

\* ConsoleReporterBuilder::default().with_execution(..)...finish()
ConsoleReporter(execution, options, diagnostics, summary) ==
    [execution |-> execution, cli_options |-> options,
     diagnostics |-> diagnostics, summary |-> summary]

ConsoleReporterVisitor(console) == [console |-> console]

TraverseResults ==
    {Ok(<<s, d>>) : s \in Summaries, d \in DiagnosticsCollections}
    \cup {Err(e) : e \in Errors}

Call(ev) == Append(trace, ev)

\* The CliSession value; `session` names who holds it.
CliSession == [app |-> [console |-> "console"]]

(***************************************************************************)
(* Initial state: nothing constructed, execute_mode not called.            *)
(***************************************************************************)
Init ==
    /\ pc = "start"
    /\ mode = None
    /\ ctor = "none"
    /\ github_actions = None
    /\ cli_options = None
    /\ paths = <<>>
    /\ session = "caller"
    /\ trace = <<>>
    /\ result = None
    /\ observed = [query |-> "none", value |-> None]

(***************************************************************************)
(* The caller builds the Execution with one of the four constructors.      *)
(***************************************************************************)
Built(name, execution) ==
    /\ pc = "start"
    /\ pc' = "built"
    /\ mode' = execution
    /\ ctor' = name
    /\ UNCHANGED <<cli_options, paths, session, trace, result, observed>>

new_format ==
    /\ Built("new_format", Execution_new_format)
    /\ UNCHANGED github_actions

new ==
    /\ \E m \in TraversalModes : Built("new", Execution_new(m))
    /\ UNCHANGED github_actions

new_ci ==
    \E env_var \in EnvVarResults :
        /\ Built("new_ci", Execution_new_ci(env_var))
        /\ github_actions' = env_var

with_report ==
    /\ \E m \in TraversalModes, r \in ReportModes :
            Built("with_report", Execution_with_report(m, r))
    /\ UNCHANGED github_actions

Construct == new_format \/ new \/ new_ci \/ with_report

(***************************************************************************)
(* execute_mode, up to the call of the pipeline it selects.                *)
(***************************************************************************)
\* Mutant: only the 0 placeholder is overwritten.
patch_max_diagnostics_if_unset(execution, options) ==
    IF execution.max_diagnostics = 0
    THEN [execution EXCEPT !.max_diagnostics = options.max_diagnostics]
    ELSE execution

patch_max_diagnostics(execution, options) ==
    [execution EXCEPT !.max_diagnostics = options.max_diagnostics]

std_in_call(execution, options) ==
    LET stdin == as_stdin_file(execution).value IN
    [ev |-> "call", fn |-> "std_in::run", session |-> CliSession,
     execution |-> execution, biome_path |-> BiomePath_new(as_path(stdin)),
     content |-> as_content(stdin), verbose |-> options.verbose]

\* Mutant: the two configuration paths change places.
migrate_call_paths_swapped(execution, options) ==
    LET m == execution.traversal_mode IN
    [ev |-> "call", fn |-> "migrate::run",
     payload |-> MigratePayload(CliSession, m.write, m.configuration_directory_path,
                                m.configuration_file_path, options.verbose,
                                m.sub_command)]

migrate_call(execution, options) ==
    LET m == execution.traversal_mode IN
    [ev |-> "call", fn |-> "migrate::run",
     payload |-> MigratePayload(CliSession, m.write, m.configuration_file_path,
                                m.configuration_directory_path, options.verbose,
                                m.sub_command)]

\* Mutant: the first path is dropped.
traverse_call_drops_first(execution, options, ps) ==
    [ev |-> "call", fn |-> "traverse", execution |-> execution,
     cli_options |-> options, paths |-> IF ps = <<>> THEN ps ELSE Tail(ps)]

traverse_call(execution, options, ps) ==
    [ev |-> "call", fn |-> "traverse", execution |-> execution,
     cli_options |-> options, paths |-> ps]

execute_mode ==
    /\ pc = "built"
    /\ \E options \in CliOptionsSet, ps \in PathLists :
        LET patched == patch_max_diagnostics(mode, options) IN
        /\ cli_options' = options
        /\ paths' = ps
        /\ mode' = patched
        /\ IF is_some(as_stdin_file(patched))
           THEN /\ trace' = Call(std_in_call(patched, options))
                /\ session' = "std_in::run"
                /\ pc' = "std_in"
           ELSE IF patched.traversal_mode.kind = "Migrate"
           THEN /\ trace' = Call(migrate_call(patched, options))
                /\ session' = "migrate::run"
                /\ pc' = "migrate"
           ELSE /\ trace' = Call(traverse_call(patched, options, ps))
                /\ session' = "execute_mode"
                /\ pc' = "traverse"
    /\ UNCHANGED <<ctor, github_actions, result, observed>>

(***************************************************************************)
(* execute_mode, from the return of a collaborator on.                     *)
(***************************************************************************)
Returned(fn, r) == Append(trace, [ev |-> "return", fn |-> fn, result |-> r])

\* Mutant: after std_in::run the dispatcher falls through to traverse.
std_in_returns_falls_through ==
    /\ pc = "std_in"
    /\ \E r \in UnitResults :
        trace' = Append(Returned("std_in::run", r),
                        traverse_call(mode, cli_options, paths))
    /\ result' = None
    /\ pc' = "traverse"
    /\ session' = "execute_mode"
    /\ UNCHANGED <<mode, ctor, github_actions, cli_options, paths, observed>>

std_in_returns ==
    /\ pc = "std_in"
    /\ \E r \in UnitResults :
        /\ trace' = Returned("std_in::run", r)
        /\ result' = r
    /\ pc' = "done"
    /\ UNCHANGED <<mode, ctor, github_actions, cli_options, paths, session, observed>>

migrate_returns ==
    /\ pc = "migrate"
    /\ \E r \in UnitResults :
        /\ trace' = Returned("migrate::run", r)
        /\ result' = r
    /\ pc' = "done"
    /\ UNCHANGED <<mode, ctor, github_actions, cli_options, paths, session, observed>>

report_call(execution, options, summary_result, diagnostics, console) ==
    [ev |-> "call", fn |-> "report",
     reporter |-> ConsoleReporter(execution, options, diagnostics, summary_result),
     visitor |-> ConsoleReporterVisitor(console),
     execution |-> execution, cli_options |-> options, summary |-> summary_result]

\* Mutant: the failure is dropped.
try_traverse_swallows(r) == Ok(Unit)

\* The `?` on traverse's result: an Err leaves execute_mode with that Err.
try_traverse(r) == r

traverse_returns ==
    /\ pc = "traverse"
    /\ \E r \in TraverseResults :
        IF r.tag = "Err"
        THEN /\ trace' = Returned("traverse", r)
             /\ result' = try_traverse(r)
             /\ pc' = "done"
             /\ UNCHANGED session
        ELSE /\ trace' = Append(Returned("traverse", r),
                                report_call(mode, cli_options, r.value[1], r.value[2],
                                            CliSession.app.console))
             /\ result' = None
             /\ pc' = "report"
             /\ session' = "execute_mode, console moved"
    /\ UNCHANGED <<mode, ctor, github_actions, cli_options, paths, observed>>

report_returns ==
    /\ pc = "report"
    /\ \E r \in UnitResults :
        /\ trace' = Returned("report", r)
        /\ result' = r
    /\ pc' = "done"
    /\ UNCHANGED <<mode, ctor, github_actions, cli_options, paths, session, observed>>

Next ==
    \/ Construct
    \/ execute_mode
    \/ std_in_returns
    \/ migrate_returns
    \/ traverse_returns
    \/ report_returns

Spec == Init /\ [][Next]_vars

(***************************************************************************)
(* A holder of &Execution evaluates one of its queries.                    *)
(***************************************************************************)
Observe(query, value) ==
    /\ pc = "built"
    /\ observed' = [query |-> query, value |-> value]
    /\ UNCHANGED <<pc, mode, ctor, github_actions, cli_options, paths, session,
                   trace, result>>

query_to_features == Observe("to_features", to_features(mode))
query_get_max_diagnostics == Observe("get_max_diagnostics", get_max_diagnostics(mode))
query_is_ci == Observe("is_ci", is_ci(mode))
query_is_ci_github == Observe("is_ci_github", is_ci_github(mode))
query_is_check_apply == Observe("is_check_apply", is_check_apply(mode))
query_is_check_apply_unsafe == Observe("is_check_apply_unsafe", is_check_apply_unsafe(mode))
query_requires_write_access == Observe("requires_write_access", requires_write_access(mode))
query_as_stdin_file == Observe("as_stdin_file", as_stdin_file(mode))

QueryNext ==
    \/ Construct
    \/ query_to_features
    \/ query_get_max_diagnostics
    \/ query_is_ci
    \/ query_is_ci_github
    \/ query_is_check_apply
    \/ query_is_check_apply_unsafe
    \/ query_requires_write_access
    \/ query_as_stdin_file

QuerySpec == Init /\ [][QueryNext]_vars

(***************************************************************************)
(* Reading the trace.                                                      *)
(***************************************************************************)
Pipelines == {"std_in::run", "migrate::run", "traverse"}
Invoked == pc \notin {"start", "built"}
CallsOf(fns) == {i \in DOMAIN trace : trace[i].ev = "call" /\ trace[i].fn \in fns}
ReturnsOf(fns) == {i \in DOMAIN trace : trace[i].ev = "return" /\ trace[i].fn \in fns}
Range(f) == {f[i] : i \in DOMAIN f}
StdinKinds == {"Format", "Lint", "Check", "Search"}
\* The Stdin field the variant was built with (None where it has no such field).
StdinField ==
    IF mode.traversal_mode.kind \in StdinKinds
    THEN mode.traversal_mode.stdin
    ELSE None

(***************************************************************************)
(* C1: when the Execution's stdin source is non-empty, whatever its        *)
(* variant, execute_mode calls std_in::run with exactly the Stdin's        *)
(* virtual path and content, and calls neither traverse, migrate::run nor  *)
(* report in that invocation.                                              *)
(***************************************************************************)
C1_StdinSelectsSingleContent ==
    (Invoked /\ is_some(as_stdin_file(mode))) =>
        /\ trace[1].ev = "call"
        /\ trace[1].fn = "std_in::run"
        /\ trace[1].biome_path.path = mode.traversal_mode.stdin.value[1]
        /\ trace[1].content = mode.traversal_mode.stdin.value[2]
        /\ CallsOf({"traverse", "migrate::run", "report"}) = {}
        /\ CallsOf({"std_in::run"}) = {1}

C1_Witness ==
    /\ pc = "done"
    /\ mode.traversal_mode.kind = "Search"
    /\ is_some(as_stdin_file(mode))
    /\ trace[1].fn = "std_in::run"
    /\ trace[1].biome_path.path = "a.js"
    /\ trace[1].content = "let x=1"

(***************************************************************************)
(* C2: in every invocation of execute_mode exactly one of the three        *)
(* pipelines (std_in::run, migrate::run, traverse) is called, exactly      *)
(* once, and no second pipeline is ever started.                           *)
(***************************************************************************)
C2_ExactlyOnePipeline ==
    /\ Cardinality(CallsOf(Pipelines)) <= 1
    /\ Invoked => Cardinality(CallsOf(Pipelines)) = 1
    /\ (Invoked /\ trace[1].fn \in {"std_in::run", "migrate::run"}) =>
            session = trace[1].fn
    /\ (Invoked /\ trace[1].fn = "traverse") => session \notin Pipelines

C2_Witness ==
    /\ pc = "done"
    /\ Cardinality(CallsOf(Pipelines)) = 1
    /\ CallsOf({"report"}) # {}

(***************************************************************************)
(* C3: whichever constructor built the Execution (cap 0 or 20), once       *)
(* execute_mode has started the cap equals cli_options.max_diagnostics,    *)
(* and every Execution handed to a pipeline or to the reporter carries     *)
(* that cap.                                                               *)
(***************************************************************************)
C3_CapPatchedBeforeAnyCall ==
    Invoked =>
        /\ get_max_diagnostics(mode) = cli_options.max_diagnostics
        /\ \A i \in CallsOf({"std_in::run", "traverse", "report"}) :
                get_max_diagnostics(trace[i].execution) = cli_options.max_diagnostics
        /\ \A i \in CallsOf({"report"}) :
                get_max_diagnostics(trace[i].reporter.execution)
                    = cli_options.max_diagnostics

C3_Witness ==
    /\ pc = "report"
    /\ ctor = "new_format"
    /\ cli_options.max_diagnostics = 50
    /\ get_max_diagnostics(trace[3].reporter.execution) = 50

(***************************************************************************)
(* C4: an Err returned by the selected pipeline is the result of           *)
(* execute_mode, unchanged, and nothing is called after it: no retry, no   *)
(* reporter, never an Ok.                                                  *)
(***************************************************************************)
C4_PipelineFailurePropagates ==
    \A i \in ReturnsOf(Pipelines) :
        trace[i].result.tag = "Err" =>
            /\ pc = "done"
            /\ result = trace[i].result
            /\ i = Len(trace)
            /\ CallsOf({"report"}) = {}
            /\ Cardinality(CallsOf(Pipelines)) = 1

C4_Witness ==
    /\ pc = "done"
    /\ trace[Len(trace)].fn = "traverse"
    /\ result = Err("E2")

(***************************************************************************)
(* C5: with no stdin source and a mode other than Migrate, execute_mode    *)
(* calls traverse with the whole path list; report is called only after    *)
(* traverse returned Ok, with a reporter built from that summary and those *)
(* diagnostics; and the result of execute_mode is report's result.         *)
(***************************************************************************)
C5_TraverseThenReport ==
    (Invoked /\ StdinField = None /\ mode.traversal_mode.kind # "Migrate") =>
        /\ trace[1].ev = "call"
        /\ trace[1].fn = "traverse"
        /\ trace[1].paths = paths
        /\ trace[1].cli_options = cli_options
        /\ CallsOf({"std_in::run", "migrate::run"}) = {}
        /\ \A i \in CallsOf({"report"}) :
                /\ i = 3
                /\ trace[2].ev = "return"
                /\ trace[2].fn = "traverse"
                /\ trace[2].result.tag = "Ok"
                /\ trace[i].reporter.summary = trace[2].result.value[1]
                /\ trace[i].reporter.diagnostics = trace[2].result.value[2]
                /\ trace[i].reporter.cli_options = cli_options
                /\ trace[i].summary = trace[2].result.value[1]
        /\ (Len(trace) >= 2 /\ trace[2].result.tag = "Ok") => CallsOf({"report"}) = {3}
        /\ (pc = "done" /\ Len(trace) = 4) =>
                /\ trace[4].ev = "return"
                /\ trace[4].fn = "report"
                /\ result = trace[4].result

C5_Witness ==
    /\ pc = "done"
    /\ Len(trace) = 4
    /\ mode.traversal_mode.kind = "CI"
    /\ paths = <<"src/", "a.js">>
    /\ trace[1].paths = <<"src/", "a.js">>
    /\ trace[3].fn = "report"
    /\ trace[3].reporter.summary = "summary1"
    /\ trace[3].reporter.diagnostics = "diags0"
    /\ result = Err("E1")

(***************************************************************************)
(* C6: in Migrate mode execute_mode calls migrate::run with a payload      *)
(* holding the variant's write flag, configuration-file path,              *)
(* configuration-directory path and sub-command and cli_options.verbose;   *)
(* it calls neither traverse nor report and returns migrate::run's result. *)
(***************************************************************************)
C6_MigratePayload ==
    (Invoked /\ mode.traversal_mode.kind = "Migrate") =>
        /\ trace[1].ev = "call"
        /\ trace[1].fn = "migrate::run"
        /\ trace[1].payload.write = mode.traversal_mode.write
        /\ trace[1].payload.configuration_file_path
                = mode.traversal_mode.configuration_file_path
        /\ trace[1].payload.configuration_directory_path
                = mode.traversal_mode.configuration_directory_path
        /\ trace[1].payload.sub_command = mode.traversal_mode.sub_command
        /\ trace[1].payload.verbose = cli_options.verbose
        /\ CallsOf({"traverse", "report", "std_in::run"}) = {}
        /\ pc = "done" =>
                /\ Len(trace) = 2
                /\ trace[2].ev = "return"
                /\ trace[2].fn = "migrate::run"
                /\ result = trace[2].result

C6_Witness ==
    /\ pc = "done"
    /\ mode.traversal_mode = Migrate(TRUE, "biome.json", ".", None)
    /\ trace[1].payload.configuration_file_path = "biome.json"
    /\ trace[1].payload.configuration_directory_path = "."
    /\ result = Ok(Unit)

(***************************************************************************)
(* C7: requires_write_access is true exactly when the mode is Check or     *)
(* Lint with a fix policy, or Format or Migrate with write set; it is      *)
(* false for CI and Search.                                                *)
(***************************************************************************)
C7_RequiresWriteAccess ==
    observed.query = "requires_write_access" =>
        LET m == mode.traversal_mode IN
        /\ observed.value \in BOOLEAN
        /\ observed.value <=>
                \/ m.kind \in {"Check", "Lint"} /\ m.fix_file_mode # None
                \/ m.kind = "Format" /\ m.write
                \/ m.kind = "Migrate" /\ m.write
        /\ m.kind \in {"CI", "Search"} => observed.value = FALSE

C7_Witness ==
    /\ observed.query = "requires_write_access"
    /\ observed.value = TRUE
    /\ mode.traversal_mode.kind = "Migrate"

(***************************************************************************)
(* C8: as_stdin_file is non-empty exactly when the variant is Format,      *)
(* Lint, Check or Search and its Stdin field is set, and is then that      *)
(* Stdin; it is empty for every CI and Migrate execution.                  *)
(***************************************************************************)
C8_StdinSource ==
    observed.query = "as_stdin_file" =>
        LET m == mode.traversal_mode IN
        /\ observed.value # None <=> (m.kind \in StdinKinds /\ m.stdin # None)
        /\ observed.value # None => observed.value = m.stdin
        /\ m.kind \in {"CI", "Migrate"} => observed.value = None

C8_Witness ==
    /\ observed.query = "as_stdin_file"
    /\ mode.traversal_mode.kind = "Search"
    /\ observed.value = Some(Stdin("b.ts", ""))

(***************************************************************************)
(* C9: to_features returns Format -> {Format}; Lint -> {Lint}; Check and   *)
(* CI -> {OrganizeImports, Format, Lint}; Search -> {Search}; Migrate ->   *)
(* nothing.  Format never enables Lint.                                    *)
(***************************************************************************)
C9_Features ==
    observed.query = "to_features" =>
        LET k == mode.traversal_mode.kind
            features == Range(observed.value) IN
        /\ k = "Format" => features = {"Format"}
        /\ k = "Lint" => features = {"Lint"}
        /\ k \in {"Check", "CI"} => features = {"OrganizeImports", "Format", "Lint"}
        /\ k = "Search" => features = {"Search"}
        /\ k = "Migrate" => features = {}
        /\ k = "Format" => "Lint" \notin features

C9_Witness ==
    /\ observed.query = "to_features"
    /\ mode.traversal_mode.kind = "Format"
    /\ mode.traversal_mode.write
    /\ Range(observed.value) = {"Format"}

(***************************************************************************)
(* C10: new_ci always yields a CI execution, and its provider tag depends  *)
(* on GITHUB_ACTIONS alone: is_ci_github is true exactly when the variable *)
(* is "true"; for any other value, or none, the tag is absent.             *)
(***************************************************************************)
C10_CiDetection ==
    ctor = "new_ci" =>
        /\ mode.traversal_mode.kind = "CI"
        /\ mode.traversal_mode.environment # None <=> github_actions = Ok("true")
        /\ observed.query = "is_ci" => observed.value = TRUE
        /\ observed.query = "is_ci_github" =>
                (observed.value <=> github_actions = Ok("true"))

C10_Witness ==
    /\ ctor = "new_ci"
    /\ github_actions = Ok("TRUE")
    /\ observed.query = "is_ci_github"
    /\ observed.value = FALSE

====
